---- MODULE Spec2Model ----
(***************************************************************************)
(* Model of src/app.py: the Mergington High School activities API.         *)
(* Two tables (activity, participant) in one database, a seeding step run  *)
(* at import time, and three request handlers: get_activities,             *)
(* signup_for_activity and unregister_from_activity.                       *)
(*                                                                         *)
(* Spec     : every request runs to completion before the next one starts. *)
(* SpecRace : signup requests are split at their database statements       *)
(*            (select activity, select participants, insert+commit) and    *)
(*            the statements of several requests interleave.               *)
(***************************************************************************)
EXTENDS Integers, Sequences, FiniteSets, TLC

VARIABLES
    activity,     \* the activity table, rows in rowid order
    participant,  \* the participant table, rows in rowid order
    request,      \* the request whose handling ended last
    response,     \* what that request returned
    served,       \* number of requests accepted so far
    sess          \* per worker thread: the locals of its signup in flight

vars == <<activity, participant, request, response, served, sess>>

\* ------------------------------------------------------------------ bounds

MaxRequests == 4

\* Requests accepted in a run whose signups interleave.
MaxRaceRequests == 3

\* Worker threads that handle requests at the same time.
NumWorkers == 2

Workers == 1..NumWorkers

\* Path and query parameters the clients send.
ReqNames == {"Math Club", "Chess Club", "Knitting Club"}

ReqEmails == {"test@mergington.edu", "student@mergington.edu", "james@mergington.edu"}

\* Students who signed up for Math Club during an earlier run of the process,
\* whose rows are still in data.db when the process starts again.
EarlierEmails ==
    << "s1@mergington.edu", "s2@mergington.edu", "s3@mergington.edu",
       "s4@mergington.edu", "s5@mergington.edu", "s6@mergington.edu",
       "s7@mergington.edu" >>

\* ------------------------------------------------------------- seed data

initial ==
    << [name |-> "Chess Club",
        description |-> "Learn strategies and compete in chess tournaments",
        schedule |-> "Fridays, 3:30 PM - 5:00 PM",
        max_participants |-> 12,
        participants |-> <<"michael@mergington.edu", "daniel@mergington.edu">>],
       [name |-> "Programming Class",
        description |-> "Learn programming fundamentals and build software projects",
        schedule |-> "Tuesdays and Thursdays, 3:30 PM - 4:30 PM",
        max_participants |-> 20,
        participants |-> <<"emma@mergington.edu", "sophia@mergington.edu">>],
       [name |-> "Gym Class",
        description |-> "Physical education and sports activities",
        schedule |-> "Mondays, Wednesdays, Fridays, 2:00 PM - 3:00 PM",
        max_participants |-> 30,
        participants |-> <<"john@mergington.edu", "olivia@mergington.edu">>],
       [name |-> "Soccer Team",
        description |-> "Join the school soccer team and compete in matches",
        schedule |-> "Tuesdays and Thursdays, 4:00 PM - 5:30 PM",
        max_participants |-> 22,
        participants |-> <<"liam@mergington.edu", "noah@mergington.edu">>],
       [name |-> "Basketball Team",
        description |-> "Practice and play basketball with the school team",
        schedule |-> "Wednesdays and Fridays, 3:30 PM - 5:00 PM",
        max_participants |-> 15,
        participants |-> <<"ava@mergington.edu", "mia@mergington.edu">>],
       [name |-> "Art Club",
        description |-> "Explore your creativity through painting and drawing",
        schedule |-> "Thursdays, 3:30 PM - 5:00 PM",
        max_participants |-> 15,
        participants |-> <<"amelia@mergington.edu", "harper@mergington.edu">>],
       [name |-> "Drama Club",
        description |-> "Act, direct, and produce plays and performances",
        schedule |-> "Mondays and Wednesdays, 4:00 PM - 5:30 PM",
        max_participants |-> 20,
        participants |-> <<"ella@mergington.edu", "scarlett@mergington.edu">>],
       [name |-> "Math Club",
        description |-> "Solve challenging problems and participate in math competitions",
        schedule |-> "Tuesdays, 3:30 PM - 4:30 PM",
        max_participants |-> 10,
        participants |-> <<"james@mergington.edu", "benjamin@mergington.edu">>],
       [name |-> "Debate Team",
        description |-> "Develop public speaking and argumentation skills",
        schedule |-> "Fridays, 4:00 PM - 5:30 PM",
        max_participants |-> 12,
        participants |-> <<"charlotte@mergington.edu", "henry@mergington.edu">>] >>

\* ------------------------------------------------------------ the store

\* The rowid a table gives a row inserted with id = None: one more than the
\* largest rowid in the table.
MaxId(rows) ==
    IF rows = <<>> THEN 0
    ELSE LET ids == {rows[i].id : i \in 1..Len(rows)}
         IN  CHOOSE m \in ids : \A n \in ids : n <= m

NextId(rows) == MaxId(rows) + 1

\* session.exec(...).first(): the first row, or None (the empty sequence here).
first(rows) == IF rows = <<>> THEN <<>> ELSE <<Head(rows)>>

\* Mutant: the where clause on the name is missing.
SelectAnyActivity(acts, activity_name) == acts

\* select(Activity).where(Activity.name == activity_name)
SelectActivityByName(acts, activity_name) ==
    SelectSeq(acts, LAMBDA a : a.name = activity_name)

\* Mutant: the where clause on activity_id is missing.
SelectAllParticipants(parts, activity_id) == parts

\* select(Participant).where(Participant.activity_id == act.id)
SelectParticipants(parts, activity_id) ==
    SelectSeq(parts, LAMBDA p : p.activity_id = activity_id)

\* select(Participant).where(Participant.activity_id == act.id,
\*                           Participant.email == email)
SelectParticipant(parts, activity_id, email) ==
    SelectSeq(parts, LAMBDA p : p.activity_id = activity_id /\ p.email = email)

\* session.add(Participant(email=email, activity_id=act.id)); session.commit()
AddParticipant(parts, email, activity_id) ==
    Append(parts, [id |-> NextId(parts), email |-> email, activity_id |-> activity_id])

\* session.add(Activity(...)); session.commit(); session.refresh(act)
AddActivity(acts, data) ==
    Append(acts, [id |-> NextId(acts),
                  name |-> data.name,
                  description |-> data.description,
                  schedule |-> data.schedule,
                  max_participants |-> data.max_participants])

\* Mutant: the delete is never committed.
DeleteNothing(parts, row) == parts

\* Mutant: the delete matches on the email alone, in every activity.
DeleteByEmail(parts, row) ==
    SelectSeq(parts, LAMBDA p : p.email # row.email)

\* session.delete(participant); session.commit(): the row with that primary key.
DeleteParticipant(parts, row) ==
    SelectSeq(parts, LAMBDA p : p.id # row.id)

\* ------------------------------------------------------------- seeding

\* The body of the loop over initial.items(), from entry i on: the activity
\* row is committed and refreshed (so act.id is known), then one participant
\* row per seeded email is added.
RECURSIVE AddEmails(_, _, _)
AddEmails(parts, emails, activity_id) ==
    IF emails = <<>> THEN parts
    ELSE AddEmails(AddParticipant(parts, Head(emails), activity_id),
                   Tail(emails), activity_id)

RECURSIVE SeedFrom(_, _)
SeedFrom(i, db) ==
    IF i > Len(initial) THEN db
    ELSE LET acts == AddActivity(db.activity, initial[i])
             act  == acts[Len(acts)]
         IN  SeedFrom(i + 1,
                      [activity    |-> acts,
                       participant |-> AddEmails(db.participant,
                                                 initial[i].participants, act.id)])

\* Mutant: the check for an existing activity is missing.
SeedAlways(db) == SeedFrom(1, db)

\* seed_initial_data(): seeds only if the activity table holds no row.
seed_initial_data(db) ==
    IF first(db.activity) # <<>> THEN db ELSE SeedFrom(1, db)

\* create_db_and_tables(): a missing database file becomes two empty tables;
\* existing tables are kept as they are.
EmptyDb == [activity |-> <<>>, participant |-> <<>>]

\* ------------------------------------------------------------- responses

HTTPException(status_code, detail) ==
    [status |-> status_code, body |-> [detail |-> detail]]

Ok(message) == [status |-> 200, body |-> [message |-> message]]

\* A redirect or the startup itself: no request body of interest.
NoRequest == [op |-> "startup", activity_name |-> "", email |-> ""]

NoResponse == [status |-> 0, body |-> [detail |-> ""]]

\* ------------------------------------------------------------- handlers

\* Mutant: all() in place of any().
AllSignedUp(current, email) ==
    \A i \in 1..Len(current) : current[i].email = email

\* any(p.email == email for p in current)
AlreadySignedUp(current, email) ==
    \E i \in 1..Len(current) : current[i].email = email

\* Mutant: > in place of >=.
IsFullOffByOne(current, act) == Len(current) > act.max_participants

\* Mutant: the capacity check is missing.
IsNeverFull(current, act) == FALSE

\* len(current) >= act.max_participants
IsFull(current, act) == Len(current) >= act.max_participants

\* emails = [p.email for p in participants]
EmailsOf(rows) == [i \in 1..Len(rows) |-> rows[i].email]

\* get_activities(): a dict keyed by activity name; a later row with the
\* same name overwrites an earlier one.
get_activities(acts, parts) ==
    [n \in {acts[i].name : i \in 1..Len(acts)} |->
        LET same == SelectActivityByName(acts, n)
            act  == same[Len(same)]
        IN  [description      |-> act.description,
             schedule         |-> act.schedule,
             max_participants |-> act.max_participants,
             participants     |-> EmailsOf(SelectParticipants(parts, act.id))]]

\* signup_for_activity(activity_name, email), run to completion: the
\* participant table afterwards and the response.
signup_for_activity(acts, parts, activity_name, email) ==
    LET act == first(SelectActivityByName(acts, activity_name))
    IN  IF act = <<>>
        THEN [participant |-> parts,
              response |-> HTTPException(404, "Activity not found")]
        ELSE LET current == SelectParticipants(parts, act[1].id)
             IN  IF AlreadySignedUp(current, email)
                 THEN [participant |-> parts,
                       response |-> HTTPException(400, "Student is already signed up")]
                 ELSE IF IsFull(current, act[1])
                 THEN [participant |-> parts,
                       response |-> HTTPException(400, "Activity is full")]
                 ELSE [participant |-> AddParticipant(parts, email, act[1].id),
                       response |-> Ok("Signed up " \o email \o " for " \o activity_name)]

\* unregister_from_activity(activity_name, email), run to completion.
unregister_from_activity(acts, parts, activity_name, email) ==
    LET act == first(SelectActivityByName(acts, activity_name))
    IN  IF act = <<>>
        THEN [participant |-> parts,
              response |-> HTTPException(404, "Activity not found")]
        ELSE LET found == first(SelectParticipant(parts, act[1].id, email))
             IN  IF found = <<>>
                 THEN [participant |-> parts,
                       response |-> HTTPException(400,
                                      "Student is not signed up for this activity")]
                 ELSE [participant |-> DeleteParticipant(parts, found[1]),
                       response |-> Ok("Unregistered " \o email \o " from " \o activity_name)]

\* ------------------------------------------------------------------ Init

\* The database an earlier run of the process left behind: the seed, and
\* the earlier students signed up for Math Club through the signup handler.
RECURSIVE EarlierRun(_, _)
EarlierRun(db, emails) ==
    IF emails = <<>> THEN db
    ELSE EarlierRun([activity    |-> db.activity,
                     participant |-> signup_for_activity(db.activity, db.participant,
                                         "Math Club", Head(emails)).participant],
                    Tail(emails))

\* What DATABASE_URL may point at when the module is imported.
PriorDbs == {EmptyDb, EarlierRun(seed_initial_data(EmptyDb), EarlierEmails)}

Idle == [pc |-> "idle", activity_name |-> "", email |-> "", act |-> <<>>, current |-> <<>>]

\* Module import: create_db_and_tables(); seed_initial_data().
Init ==
    \E prior \in PriorDbs :
        LET db == seed_initial_data(prior)
        IN  /\ activity = db.activity
            /\ participant = db.participant
            /\ request = NoRequest
            /\ response = NoResponse
            /\ served = 0
            /\ sess = [w \in Workers |-> Idle]

\* --------------------------------------- requests that run to completion

AllIdle == \A w \in Workers : sess[w].pc = "idle"

\* The process is started again on the same database.
Startup ==
    /\ AllIdle
    /\ LET db == seed_initial_data([activity |-> activity, participant |-> participant])
       IN  /\ activity' = db.activity
           /\ participant' = db.participant
    /\ request' = NoRequest
    /\ response' = NoResponse
    /\ UNCHANGED <<served, sess>>

GetActivities ==
    /\ served < MaxRequests
    /\ served' = served + 1
    /\ request' = [op |-> "list", activity_name |-> "", email |-> ""]
    /\ response' = [status |-> 200, body |-> get_activities(activity, participant)]
    /\ UNCHANGED <<activity, participant, sess>>

SignupForActivity ==
    /\ served < MaxRequests
    /\ \E activity_name \in ReqNames, email \in ReqEmails :
         LET out == signup_for_activity(activity, participant, activity_name, email)
         IN  /\ participant' = out.participant
             /\ response' = out.response
             /\ request' = [op |-> "signup", activity_name |-> activity_name,
                            email |-> email]
    /\ served' = served + 1
    /\ UNCHANGED <<activity, sess>>

UnregisterFromActivity ==
    /\ served < MaxRequests
    /\ \E activity_name \in ReqNames, email \in ReqEmails :
         LET out == unregister_from_activity(activity, participant, activity_name, email)
         IN  /\ participant' = out.participant
             /\ response' = out.response
             /\ request' = [op |-> "unregister", activity_name |-> activity_name,
                            email |-> email]
    /\ served' = served + 1
    /\ UNCHANGED <<activity, sess>>

Next ==
    \/ Startup
    \/ GetActivities
    \/ SignupForActivity
    \/ UnregisterFromActivity

Spec == Init /\ [][Next]_vars

\* ------------------------- signup requests whose statements interleave

\* Mutant: the capacity is checked again, on the table as it is at the insert.
CommitSignupIfRoom(parts, s) ==
    IF Len(SelectParticipants(parts, s.act.id)) >= s.act.max_participants
    THEN parts
    ELSE AddParticipant(parts, s.email, s.act.id)

\* Lines 177-179: the row is added and committed; nothing is read again.
CommitSignup(parts, s) == AddParticipant(parts, s.email, s.act.id)

\* Lines 165-168: a worker thread takes a signup request, opens a session and
\* selects the activity.
SignupSelectActivity(w) ==
    /\ served < MaxRaceRequests
    /\ sess[w].pc = "idle"
    /\ served' = served + 1
    /\ \E activity_name \in ReqNames, email \in ReqEmails :
         LET act == first(SelectActivityByName(activity, activity_name))
         IN  IF act = <<>>
             THEN /\ request' = [op |-> "signup", activity_name |-> activity_name,
                                 email |-> email]
                  /\ response' = HTTPException(404, "Activity not found")
                  /\ UNCHANGED sess
             ELSE /\ sess' = [sess EXCEPT ![w] =
                                [pc |-> "select_current",
                                 activity_name |-> activity_name,
                                 email |-> email,
                                 act |-> act[1],
                                 current |-> <<>>]]
                  /\ UNCHANGED <<request, response>>
    /\ UNCHANGED <<activity, participant>>

\* Lines 170-175: the participants are selected and the two checks are made
\* on the rows just read.
SignupSelectCurrent(w) ==
    /\ sess[w].pc = "select_current"
    /\ LET s == sess[w]
           current == SelectParticipants(participant, s.act.id)
           req == [op |-> "signup", activity_name |-> s.activity_name,
                   email |-> s.email]
       IN  IF AlreadySignedUp(current, s.email)
           THEN /\ request' = req
                /\ response' = HTTPException(400, "Student is already signed up")
                /\ sess' = [sess EXCEPT ![w] = Idle]
           ELSE IF IsFull(current, s.act)
           THEN /\ request' = req
                /\ response' = HTTPException(400, "Activity is full")
                /\ sess' = [sess EXCEPT ![w] = Idle]
           ELSE /\ sess' = [sess EXCEPT ![w].pc = "commit",
                                        ![w].current = current]
                /\ UNCHANGED <<request, response>>
    /\ UNCHANGED <<activity, participant, served>>

\* Lines 177-180: insert, commit, return the message.
SignupCommit(w) ==
    /\ sess[w].pc = "commit"
    /\ LET s == sess[w]
       IN  /\ participant' = CommitSignup(participant, s)
           /\ request' = [op |-> "signup", activity_name |-> s.activity_name,
                          email |-> s.email]
           /\ response' = Ok("Signed up " \o s.email \o " for " \o s.activity_name)
    /\ sess' = [sess EXCEPT ![w] = Idle]
    /\ UNCHANGED <<activity, served>>

NextRace ==
    \/ \E w \in Workers : SignupSelectActivity(w)
    \/ \E w \in Workers : SignupSelectCurrent(w)
    \/ \E w \in Workers : SignupCommit(w)
    \/ (served < MaxRaceRequests /\ UnregisterFromActivity)

SpecRace == Init /\ [][NextRace]_vars

\* ------------------------------------------- vocabulary of the properties

ActivityRows == {activity[i] : i \in 1..Len(activity)}

Exists(activity_name) == \E a \in ActivityRows : a.name = activity_name

ActByName(activity_name) == CHOOSE a \in ActivityRows : a.name = activity_name

RowsOf(parts, activity_id) ==
    {parts[i] : i \in {j \in 1..Len(parts) : parts[j].activity_id = activity_id}}

Count(parts, activity_id) == Cardinality(RowsOf(parts, activity_id))

Registered(parts, activity_id, email) ==
    \E r \in RowsOf(parts, activity_id) : r.email = email

Occurrences(seq, x) == Cardinality({i \in 1..Len(seq) : seq[i] = x})

\* The step is the handling of one request of that kind, from start to end.
SignupStep == served' = served + 1 /\ request'.op = "signup"

UnregisterStep == served' = served + 1 /\ request'.op = "unregister"

ListStep == served' = served + 1 /\ request'.op = "list"

StartupStep == served' = served

Fails(resp, status_code, detail) ==
    resp = [status |-> status_code, body |-> [detail |-> detail]]

\* ------------------------------------------------------------------- C1

\* C1: with requests that each run to completion, every activity has at most
\* max_participants participant rows referencing it, in every reachable state.
C1_CapacityInvariant ==
    \A a \in ActivityRows : Count(participant, a.id) <= a.max_participants

\* A signup has just taken the last free place of Math Club.
C1_Witness ==
    /\ request.op = "signup"
    /\ request.activity_name = "Math Club"
    /\ response.status = 200
    /\ Count(participant, ActByName("Math Club").id)
         = ActByName("Math Club").max_participants

\* ------------------------------------------------------------------- C2

\* C2: in every reachable state, also when the statements of several signup
\* requests interleave, no two participant rows have the same
\* (activity_id, email) pair.
C2_UniquePairs ==
    \A i, j \in 1..Len(participant) :
        (/\ participant[i].activity_id = participant[j].activity_id
         /\ participant[i].email = participant[j].email) => i = j

\* ------------------------------------------------------------------- C3

\* C3: signup(A, e) on an existing activity succeeds exactly when e is not
\* registered for A and A has fewer than max_participants participants; after
\* it succeeds e occurs exactly once in A's list as get_activities returns it
\* and A's participant count has grown by exactly one.
C3_SignupSucceeds ==
    [][(SignupStep /\ Exists(request'.activity_name)) =>
         LET a == ActByName(request'.activity_name)
             e == request'.email
             before == get_activities(activity, participant)[a.name].participants
             after  == get_activities(activity', participant')[a.name].participants
         IN  /\ (response'.status = 200) <=>
                   (/\ ~Registered(participant, a.id, e)
                    /\ Count(participant, a.id) < a.max_participants)
             /\ (response'.status = 200) =>
                   /\ Occurrences(after, e) = 1
                   /\ Len(after) = Len(before) + 1
                   /\ Count(participant', a.id) = Count(participant, a.id) + 1
                   /\ response'.body.message
                        = "Signed up " \o e \o " for " \o a.name
       ]_vars

\* test@mergington.edu has signed up for Chess Club: 2 participants became 3.
C3_Witness ==
    /\ request = [op |-> "signup", activity_name |-> "Chess Club",
                  email |-> "test@mergington.edu"]
    /\ response.status = 200
    /\ Count(participant, ActByName("Chess Club").id) = 3

\* ------------------------------------------------------------------- C4

\* C4: signup(A, e) with e already registered for the existing activity A
\* returns 400 "Student is already signed up" and leaves the store unchanged.
C4_DuplicateRejected ==
    [][(/\ SignupStep
        /\ Exists(request'.activity_name)
        /\ Registered(participant, ActByName(request'.activity_name).id,
                      request'.email)) =>
         /\ Fails(response', 400, "Student is already signed up")
         /\ participant' = participant
         /\ activity' = activity
       ]_vars

\* The repeated signup of test@mergington.edu for Chess Club was refused; the
\* address is not seeded, so an earlier signup request had put it there.
C4_Witness ==
    /\ request = [op |-> "signup", activity_name |-> "Chess Club",
                  email |-> "test@mergington.edu"]
    /\ Fails(response, 400, "Student is already signed up")
    /\ Count(participant, ActByName("Chess Club").id) = 3

\* ------------------------------------------------------------------- C5

\* C5: signup(A, e) on an existing activity whose participant count has
\* reached max_participants, with e not registered for A, returns
\* 400 "Activity is full" and leaves the store unchanged.
C5_FullRejected ==
    [][(/\ SignupStep
        /\ Exists(request'.activity_name)
        /\ LET a == ActByName(request'.activity_name)
           IN  /\ Count(participant, a.id) >= a.max_participants
               /\ ~Registered(participant, a.id, request'.email)) =>
         /\ Fails(response', 400, "Activity is full")
         /\ participant' = participant
         /\ activity' = activity
       ]_vars

\* A signup for the full Math Club was refused.
C5_Witness ==
    /\ request.op = "signup"
    /\ request.activity_name = "Math Club"
    /\ Fails(response, 400, "Activity is full")
    /\ Count(participant, ActByName("Math Club").id)
         = ActByName("Math Club").max_participants
    /\ ~Registered(participant, ActByName("Math Club").id, request.email)

\* ------------------------------------------------------------------- C6

\* C6: unregister(A, e) on an existing activity: if e is registered for A it
\* succeeds and e is no longer in A's participant list; if e has no row for A
\* (as right after a successful unregister) it returns 400, not 404, and
\* leaves the store unchanged.
C6_Unregister ==
    [][(UnregisterStep /\ Exists(request'.activity_name)) =>
         LET a == ActByName(request'.activity_name)
             e == request'.email
             after == get_activities(activity', participant')[a.name].participants
         IN  IF Registered(participant, a.id, e)
             THEN /\ response'.status = 200
                  /\ response'.body.message
                       = "Unregistered " \o e \o " from " \o a.name
                  /\ ~Registered(participant', a.id, e)
                  /\ Occurrences(after, e) = 0
             ELSE /\ Fails(response', 400,
                           "Student is not signed up for this activity")
                  /\ participant' = participant
                  /\ activity' = activity
       ]_vars

\* james@mergington.edu is seeded into Math Club, so this refusal follows a
\* successful unregistration of the same student.
C6_Witness ==
    /\ request = [op |-> "unregister", activity_name |-> "Math Club",
                  email |-> "james@mergington.edu"]
    /\ Fails(response, 400, "Student is not signed up for this activity")
    /\ ~Registered(participant, ActByName("Math Club").id, "james@mergington.edu")

\* ------------------------------------------------------------------- C7

\* C7: signup and unregister with a name that matches no activity return
\* 404 whatever the email, and change nothing; a request on an existing
\* activity never returns 404, and every failure other than 404 is a 400.
C7_UnknownActivity ==
    [][(SignupStep \/ UnregisterStep) =>
         /\ response'.status \in {200, 400, 404}
         /\ (response'.status = 404) <=> ~Exists(request'.activity_name)
         /\ (response'.status = 404) =>
               /\ Fails(response', 404, "Activity not found")
               /\ participant' = participant
               /\ activity' = activity
       ]_vars

\* james@mergington.edu is registered (for Math Club) and the unknown
\* activity is still answered with 404.
C7_Witness ==
    /\ request.activity_name = "Knitting Club"
    /\ request.email = "james@mergington.edu"
    /\ response.status = 404
    /\ \E i \in 1..Len(participant) : participant[i].email = request.email

\* ------------------------------------------------------------------- C8

\* C8: the seed (9 activities, 2 participants each) is inserted only into an
\* empty activity table; a later startup, with any signups and
\* unregistrations in between, adds no activity and no participant, and no
\* activity name occurs twice.
C8_SeedIdempotent ==
    [][/\ StartupStep => (activity' = activity /\ participant' = participant)
       /\ Len(activity') = Len(initial)
       /\ \A i, j \in 1..Len(activity') :
            activity'[i].name = activity'[j].name => i = j
       /\ \A i \in 1..Len(activity') :
            /\ activity'[i].name = initial[i].name
            /\ activity'[i].max_participants = initial[i].max_participants
       ]_vars

\* The process was started again after a signup had changed the store.
C8_Witness ==
    /\ request = NoRequest
    /\ served > 0
    /\ Registered(participant, ActByName("Chess Club").id, "test@mergington.edu")

\* ------------------------------------------------------------------- C9

\* C9: the insert of a signup is made without reading the table again: a
\* request that passed the capacity check on the rows it read inserts its
\* row and succeeds even when, by then, another request has filled the
\* activity; a state with more than max_participants rows is reachable.
C9_CheckThenWrite ==
    [][\A w \in Workers :
         (sess[w].pc = "commit" /\ sess'[w].pc = "idle") =>
            LET s == sess[w]
            IN  /\ Len(s.current) < s.act.max_participants
                /\ ~AlreadySignedUp(s.current, s.email)
                /\ Count(participant', s.act.id) = Count(participant, s.act.id) + 1
                /\ Registered(participant', s.act.id, s.email)
                /\ response'.status = 200
       ]_vars

\* Two signups with different emails both took the last place of an activity.
C9_Witness ==
    \E a \in ActivityRows :
        /\ Count(participant, a.id) > a.max_participants
        /\ \A r1, r2 \in RowsOf(participant, a.id) : r1.email = r2.email => r1 = r2
        /\ response.status = 200
        /\ request.op = "signup"

\* ------------------------------------------------------------------ C10

\* C10: no request changes the activity table; get_activities changes
\* nothing; a successful signup or unregister changes the participant rows
\* of its activity by exactly the one row for its email and leaves the rows
\* of every other activity as they were.
C10_Frame ==
    [][/\ activity' = activity
       /\ ListStep => participant' = participant
       /\ ((SignupStep \/ UnregisterStep) /\ response'.status = 200) =>
            LET a == ActByName(request'.activity_name)
                e == request'.email
                old == RowsOf(participant, a.id)
                new == RowsOf(participant', a.id)
            IN  /\ \A b \in ActivityRows :
                     b.id # a.id =>
                       SelectParticipants(participant', b.id)
                         = SelectParticipants(participant, b.id)
                /\ SignupStep =>
                     \E r \in new : /\ r.email = e
                                    /\ r \notin old
                                    /\ new = old \cup {r}
                /\ UnregisterStep =>
                     \E r \in old : /\ r.email = e
                                    /\ r \notin new
                                    /\ new = old \ {r}
       ]_vars

\* test@mergington.edu was unregistered from Chess Club and is still
\* registered for Math Club.
C10_Witness ==
    /\ request = [op |-> "unregister", activity_name |-> "Chess Club",
                  email |-> "test@mergington.edu"]
    /\ response.status = 200
    /\ Registered(participant, ActByName("Math Club").id, "test@mergington.edu")

====
